---- MODULE Spec2Model ----
(***************************************************************************)
(* Model of comments.pelican's data layer (src/src/comments/pelican/       *)
(* data.py): UIDMaker, Thread (find, insert_into_level, replace_dummy,     *)
(* insert, add, save, load, _entry) and the Comment / DummyComment         *)
(* constructors.                                                           *)
(*                                                                         *)
(* Python lists are modelled as sequences; a Python index i (0-based,      *)
(* negative values allowed by list.insert) addresses element i + 1.        *)
(* An operation that raises leaves the mutations made before the raise in  *)
(* place; the exception's name is carried in the exc field of the result.  *)
(***************************************************************************)
EXTENDS Integers, Sequences, FiniteSets, TLC

VARIABLES
    comments,   \* Thread.comments: the list of Comment / DummyComment objects
    dummies,    \* Thread.dummies: the list of reserved placeholder uids
    next,       \* Thread.next: the next auto-assigned order
    uids,       \* Thread.uids.uids: the UIDMaker's set of known uids
    log,        \* the thread file <base>/<slug>.thread
    last,       \* the call that produced this state and its outcome
    plan,       \* scenario input: the records a scenario feeds to add()
    added,      \* scenario history: the uids fed to add() so far, in order
    pc,         \* scenario position
    snap,       \* scenario history: Thread.comments after the first load()
    cmt,        \* a Comment object: its _metadata, _content and _loaded
    cfile       \* the comment file <base>/<slug>/<uid>.md

vars == <<comments, dummies, next, uids, log, last, plan, added, pc, snap,
          cmt, cfile>>

----------------------------------------------------------------------------
(* Bounds of the model and constants of the program *)

\* UIDMaker.max_retries
max_retries == 10

\* the largest number of records in Thread.comments before an add() is made
MaxRecords == 3

\* explicit order arguments are drawn from 0..MaxOrder
MaxOrder == 2

\* explicit level arguments are drawn from 0..MaxLevel
MaxLevel == 1

\* add() is not called once Thread.next has reached MaxNext
MaxNext == 4

\* the uids that callers pass and that UIDMaker.generate() can produce
UidSeq == <<"a", "b", "c", "d", "e", "f", "g">>

\* the calls of Spec draw their uids from the first MaxUids of UidSeq
MaxUids == 3

Uids == {UidSeq[i] : i \in 1..MaxUids}

\* Python's None for the order argument of add()
OrderNone == -1

\* Python's None for the uid argument of add()
UidNone == "None"

\* Python's None for a list position (find's location, parent_loc, location)
LocNone == -2

\* the thread file: absent, or present with the given lines
NoFile == [exists |-> FALSE, lines |-> <<>>]

File(lines) == [exists |-> TRUE, lines |-> lines]

\* Comment.__init__: no metadata, empty body, not loaded (also the value of cmt
\* where no Comment is under observation)
NoComment == [metadata |-> <<>>, content |-> <<>>, loaded |-> FALSE]

\* the comment file: absent, or present with the given text
NoText == [exists |-> FALSE, text |-> <<>>]

Text(t) == [exists |-> TRUE, text |-> t]

----------------------------------------------------------------------------
(* Python list primitives *)

\* list.insert(i, x): a negative i counts from the end, and i is clipped to 0..len
PyInsert(s, i, x) ==
    LET n == Len(s)
        j == IF i < 0 THEN (IF i + n < 0 THEN 0 ELSE i + n)
                      ELSE (IF i > n THEN n ELSE i)
    IN SubSeq(s, 1, j) \o <<x>> \o SubSeq(s, j + 1, n)

\* mutant of CommentEq: the comparison also looks at level, order and parent
CommentEqAllFields(a, b) == a = b

\* Comment.__eq__: two comments are equal iff their uids are equal
CommentEq(a, b) == a.uid = b.uid

\* list.index(x) under Comment.__eq__: first position, LocNone for ValueError
PyIndex(s, x) ==
    IF \E k \in 1..Len(s) : CommentEq(s[k], x)
    THEN (CHOOSE k \in 1..Len(s) :
             CommentEq(s[k], x) /\ \A m \in 1..(k - 1) : ~CommentEq(s[m], x)) - 1
    ELSE LocNone

\* list.remove(x) on a list that holds x: drops the first element equal to x
PyRemove(s, x) ==
    LET i == PyIndex(s, x)
    IN SubSeq(s, 1, i) \o SubSeq(s, i + 2, Len(s))

\* list.remove(x) on a list of strings
PyRemoveStr(s, x) ==
    LET i == CHOOSE k \in 1..Len(s) : s[k] = x /\ \A m \in 1..(k - 1) : s[m] # x
    IN SubSeq(s, 1, i - 1) \o SubSeq(s, i + 1, Len(s))

\* x in list
InList(s, x) == \E k \in 1..Len(s) : s[k] = x

----------------------------------------------------------------------------
(* Comment and DummyComment *)

\* Comment.__init__'s clamp of level and order: negative values become 0
Clamp(n) == IF n < 0 THEN 0 ELSE n

\* Comment.__init__ with an explicit uid (parent None has become "")
Comment(level, order, uid, parent) ==
    [uid |-> uid, level |-> Clamp(level), order |-> Clamp(order),
     parent |-> parent, dummy |-> FALSE]

\* DummyComment(thread, uid=uid, level=level): order defaults to 0, parent to ""
DummyComment(uid, level) ==
    [uid |-> uid, level |-> Clamp(level), order |-> 0,
     parent |-> "", dummy |-> TRUE]

----------------------------------------------------------------------------
(* UIDMaker *)

\* mutant of UIDMakerLoop: the first candidate is taken without looking it up
UIDMakerLoopNoLookup(known, retry, cands, tries0) ==
    [uids |-> known \cup {cands[tries0 + 1]}, exc |-> "", val |-> cands[tries0 + 1],
     tries |-> tries0 + 1]

\* mutant of UIDMakerLoop: the call gives up when tries has reached max_retries
RECURSIVE UIDMakerLoopEarly(_, _, _, _)
UIDMakerLoopEarly(known, retry, cands, tries0) ==
    LET tries == tries0 + 1
        uid == cands[tries]
    IN IF uid \in known
       THEN IF ~retry
            THEN [uids |-> known, exc |-> "UIDExists", val |-> uid, tries |-> tries]
            ELSE IF tries >= max_retries
                 THEN [uids |-> known, exc |-> "UIDTooManyRetries",
                       val |-> uid, tries |-> tries]
                 ELSE UIDMakerLoopEarly(known, retry, cands, tries)
       ELSE [uids |-> known \cup {uid}, exc |-> "", val |-> uid, tries |-> tries]

\* mutant of UIDMakerLoop: the retry argument is not looked at
RECURSIVE UIDMakerLoopAlwaysRetry(_, _, _, _)
UIDMakerLoopAlwaysRetry(known, retry, cands, tries0) ==
    LET tries == tries0 + 1
        uid == cands[tries]
    IN IF uid \in known
       THEN IF tries > max_retries
            THEN [uids |-> known, exc |-> "UIDTooManyRetries",
                  val |-> uid, tries |-> tries]
            ELSE UIDMakerLoopAlwaysRetry(known, retry, cands, tries)
       ELSE [uids |-> known \cup {uid}, exc |-> "", val |-> uid, tries |-> tries]

\* UIDMaker.__call__: cands[t] is what generate() returns on attempt t
RECURSIVE UIDMakerLoop(_, _, _, _)
UIDMakerLoop(known, retry, cands, tries0) ==
    LET tries == tries0 + 1
        uid == cands[tries]
    IN IF uid \in known
       THEN IF ~retry
            THEN [uids |-> known, exc |-> "UIDExists", val |-> uid, tries |-> tries]
            ELSE IF tries > max_retries
                 THEN [uids |-> known, exc |-> "UIDTooManyRetries",
                       val |-> uid, tries |-> tries]
                 ELSE UIDMakerLoop(known, retry, cands, tries)
       ELSE [uids |-> known \cup {uid}, exc |-> "", val |-> uid, tries |-> tries]

UIDMakerCall(known, retry, cands) == UIDMakerLoop(known, retry, cands, 0)

\* the streams generate() is given in the model: k times c, then f for ever
CandStream(k, c, f) == [t \in 1..(max_retries + 1) |-> IF t <= k THEN c ELSE f]

Collisions == {0, 1, max_retries, max_retries + 1}

CandStreams == {CandStream(k, c, f) : k \in Collisions, c \in Uids, f \in Uids}

----------------------------------------------------------------------------
(* Thread: the placement algorithm.  A thread value t is the record       *)
(* [comments, dummies, next, uids]; every operation returns               *)
(* [t, exc, val]: the thread after the call, the exception raised ("" for *)
(* none) and the value returned.                                           *)

Thread(c, d, n, u) == [comments |-> c, dummies |-> d, next |-> n, uids |-> u]

\* Thread.__init__
ThreadInit == Thread(<<>>, <<>>, 0, {})

Ret(t, exc, val) == [t |-> t, exc |-> exc, val |-> val]

\* Thread.find: val is <<location, comment>>
find(t, uid, level) ==
    LET comment == DummyComment(uid, level)
        location == PyIndex(t.comments, comment)
    IN IF location # LocNone
       THEN Ret(t, "", <<location, t.comments[location + 1]>>)
       ELSE Ret([t EXCEPT !.next = @ + 1, !.dummies = Append(@, uid)], "",
                <<LocNone, [comment EXCEPT !.order = t.next]>>)

\* the for loop of Thread.insert_into_level, from position index on
RECURSIVE LevelScan(_, _, _, _)
LevelScan(cs, subject, index, acc) ==
    IF index >= Len(cs) THEN acc
    ELSE LET comment == cs[index + 1]
             a1 == IF comment.uid = subject.parent
                   THEN [acc EXCEPT !.parent_loc = index] ELSE acc
             a2 == IF /\ comment.parent = subject.parent
                      /\ comment.order >= a1.largest
                      /\ comment.order <= subject.order
                   THEN [a1 EXCEPT !.location = index, !.largest = comment.order]
                   ELSE a1
         IN LevelScan(cs, subject, index + 1, a2)

\* mutant of insert_into_level: the subject goes after the sibling found
insert_into_levelAfter(t, subject) ==
    LET acc == LevelScan(t.comments, subject, 0,
                         [location |-> LocNone, parent_loc |-> LocNone, largest |-> 0])
        location == IF acc.location # LocNone THEN acc.location + 1
                    ELSE IF acc.parent_loc # LocNone /\ subject.level # 0
                         THEN acc.parent_loc + 1
                         ELSE -1
    IN Ret([t EXCEPT !.comments = PyInsert(@, location, subject)], "", location)

\* Thread.insert_into_level: val is the location handed to list.insert
insert_into_level(t, subject) ==
    LET acc == LevelScan(t.comments, subject, 0,
                         [location |-> LocNone, parent_loc |-> LocNone, largest |-> 0])
        location == IF acc.location # LocNone THEN acc.location
                    ELSE IF acc.parent_loc # LocNone /\ subject.level # 0
                         THEN acc.parent_loc + 1
                         ELSE -1
    IN Ret([t EXCEPT !.comments = PyInsert(@, location, subject)], "", location)

\* the partition loop of Thread.replace_dummy: <<children, temp>>
RECURSIVE SplitChildren(_, _, _, _, _, _)
SplitChildren(cs, dummy, index, save, children, temp) ==
    IF index >= Len(cs) THEN <<children, temp>>
    ELSE LET child == cs[index + 1]
             save1 == IF child.level = dummy.level THEN FALSE ELSE save
         IN IF save1
            THEN SplitChildren(cs, dummy, index + 1, save1, Append(children, child), temp)
            ELSE SplitChildren(cs, dummy, index + 1, save1, children, Append(temp, child))

\* the re-insertion loop of Thread.replace_dummy, index running down to 0
RECURSIVE InsertChildren(_, _, _, _)
InsertChildren(cs, loc, children, index) ==
    IF index < 0 THEN cs
    ELSE InsertChildren(PyInsert(cs, loc + 1, children[index + 1]), loc, children, index - 1)

RECURSIVE insert(_, _)
RECURSIVE replace_dummy(_, _)

\* Thread.replace_dummy
replace_dummy(t, comment) ==
    LET f == find(t, comment.uid, comment.level)
        loc == f.val[1]
        dummy == f.val[2]
    IN IF loc = LocNone
       THEN \* self.comments.remove(dummy): the dummy find() built is not in the list
            Ret(f.t, "ValueError", LocNone)
       ELSE LET removed == PyRemove(f.t.comments, dummy)
                split == SplitChildren(removed, dummy, loc, TRUE, <<>>, SubSeq(removed, 1, loc))
                children == split[1]
                temp == split[2]
                t1 == [f.t EXCEPT !.dummies = PyRemoveStr(@, comment.uid), !.comments = temp]
                r == insert(t1, comment)
            IN IF r.exc # "" THEN r
               ELSE Ret([r.t EXCEPT !.comments =
                            InsertChildren(@, r.val, children, Len(children) - 1)],
                        "", r.val)

\* Thread.insert: val is the location; the comment's level is rewritten when it has a parent
insert(t, comment) ==
    IF InList(t.dummies, comment.uid) THEN replace_dummy(t, comment)
    ELSE IF comment.parent # ""
         THEN LET f == find(t, comment.parent, comment.level - 1)
                  position == f.val[1]
                  parent == f.val[2]
                  c1 == [comment EXCEPT !.level = parent.level + 1]
                  t1 == IF position = LocNone THEN insert_into_level(f.t, parent).t ELSE f.t
              IN insert_into_level(t1, c1)
         ELSE insert_into_level(t, comment)

\* Thread.add: cands is the stream generate() returns when uid is None
add(t, level, order, uid, parent, cands) ==
    LET t1 == IF order = OrderNone THEN [t EXCEPT !.next = @ + 1]
              ELSE IF order > t.next THEN [t EXCEPT !.next = order + 1]
              ELSE t
        order1 == IF order = OrderNone THEN t.next ELSE order
        g == IF uid = UidNone THEN UIDMakerCall(t1.uids, TRUE, cands)
             ELSE [uids |-> t1.uids, exc |-> "", val |-> uid, tries |-> 0]
        comment == Comment(level, order1, g.val, parent)
    IN IF g.exc # ""
       THEN Ret(t1, g.exc, g.val)
       ELSE LET r == insert([t1 EXCEPT !.uids = g.uids], comment)
            IN Ret(r.t, r.exc, g.val)

----------------------------------------------------------------------------
(* The thread file.  A line is the tuple of its tab-separated fields, each *)
(* a string; numbers are written and read through their decimal text.      *)

\* the decimal text of 0, 1, 2, ...
DecStr == <<"0", "1", "2", "3", "4", "5", "6", "7", "8", "9", "10", "11", "12",
            "13", "14", "15", "16", "17", "18", "19", "20">>

\* f"{n}" for a non-negative int
Str(n) == DecStr[n + 1]

IsInt(s) == \E n \in 1..Len(DecStr) : DecStr[n] = s

\* int(s) for a decimal text
Int0(s) == (CHOOSE n \in 1..Len(DecStr) : DecStr[n] = s) - 1

\* the line print() writes for one comment in Thread.save
Line(comment) == <<Str(comment.level), Str(comment.order), comment.uid, comment.parent>>

\* Thread._entry: exc is ValueError when int() rejects a field
entry(line) ==
    IF ~IsInt(line[1]) \/ ~IsInt(line[2])
    THEN [exc |-> "ValueError", level |-> 0, order |-> 0, uid |-> "", parent |-> ""]
    ELSE [exc |-> "", level |-> Int0(line[1]), order |-> Int0(line[2]), uid |-> line[3],
          parent |-> IF Len(line) >= 4 THEN line[4] ELSE ""]

\* Thread.save: val is the thread file after the call
save(t, file) ==
    LET written == File([i \in 1..Len(t.comments) |-> Line(t.comments[i])])
    IN IF Len(t.comments) = 0
       THEN \* index is unbound after an empty loop
            Ret(t, "UnboundLocalError", written)
       ELSE Ret([t EXCEPT !.next = Len(t.comments)], "", written)

\* the for loop of Thread.load over the lines from position i on
RECURSIVE LoadLines(_, _, _)
LoadLines(t, lines, i) ==
    IF i > Len(lines) THEN Ret(t, "", i - 1)
    ELSE LET parsed == entry(lines[i])
         IN IF parsed.exc # "" THEN Ret(t, parsed.exc, i)
            ELSE LET r == add(t, parsed.level, parsed.order, parsed.uid, parsed.parent, <<>>)
                 IN IF r.exc # "" THEN Ret(r.t, r.exc, i)
                    ELSE LoadLines(r.t, lines, i + 1)

\* Thread.load
load(t, file) ==
    LET t1 == [t EXCEPT !.comments = <<>>]
    IN IF ~file.exists THEN Ret(t1, "FileNotFoundError", 0)
       ELSE LoadLines(t1, file.lines, 1)

----------------------------------------------------------------------------
(* What the checks read off a thread *)

UidsOf(cs) == [i \in 1..Len(cs) |-> cs[i].uid]

\* the outcome of a call, kept in the variable last
Call(op, uid, exc) == [op |-> op, uid |-> uid, exc |-> exc]

SetThread(t) ==
    /\ comments' = t.comments
    /\ dummies' = t.dummies
    /\ next' = t.next
    /\ uids' = t.uids

Cur == Thread(comments, dummies, next, uids)

----------------------------------------------------------------------------
(* Spec: one Thread object driven by add() with any arguments.             *)

Init ==
    /\ comments = <<>>
    /\ dummies = <<>>
    /\ next = 0
    /\ uids = {}
    /\ log = NoFile
    /\ last = Call("init", "", "")
    /\ plan = <<>>
    /\ added = <<>>
    /\ pc = ""
    /\ snap = <<>>
    /\ cmt = NoComment
    /\ cfile = NoText

\* the uids the thread has seen so far
Used ==
    {comments[i].uid : i \in 1..Len(comments)}
        \cup ({comments[i].parent : i \in 1..Len(comments)} \ {""})
        \cup {dummies[i] : i \in 1..Len(dummies)} \cup uids

\* uids are opaque to the program, so a uid not seen before is, without loss of
\* generality, the first of UidSeq that S does not hold
Canon(S) ==
    (S \cap Uids) \cup
    {UidSeq[i] : i \in {k \in 1..MaxUids :
                          /\ UidSeq[k] \notin S
                          /\ \A j \in 1..(k - 1) : UidSeq[j] \in S}}

\* thread.add(level, order, uid, parent) with an explicit uid
AddExplicit ==
    /\ Len(comments) < MaxRecords
    /\ next < MaxNext
    /\ \E level \in 0..MaxLevel, order \in {OrderNone} \cup 0..MaxOrder,
          uid \in Canon(Used) :
          \E parent \in {""} \cup (Canon(Used \cup {uid}) \ {uid}) :
             LET r == add(Cur, level, order, uid, parent, <<>>)
             IN /\ SetThread(r.t)
                /\ last' = Call("add", r.val, r.exc)
    /\ UNCHANGED <<cmt, cfile, log, plan, added, pc, snap>>

\* thread.add(level, order, None, parent): generate() returns c, then f for ever
AddGenerated ==
    /\ Len(comments) < MaxRecords
    /\ next < MaxNext
    /\ \E level \in 0..MaxLevel, order \in {OrderNone} \cup 0..MaxOrder,
          parent \in {""} \cup Canon(Used) :
          \E c \in Canon(Used \cup {parent}) :
             \E f \in Canon(Used \cup {parent, c}) :
                LET r == add(Cur, level, order, UidNone, parent, CandStream(1, c, f))
                IN /\ SetThread(r.t)
                   /\ last' = Call("addgen", r.val, r.exc)
    /\ UNCHANGED <<cmt, cfile, log, plan, added, pc, snap>>

\* thread.save()
Save ==
    LET r == save(Cur, log)
    IN /\ SetThread(r.t)
       /\ log' = r.val
       /\ last' = Call("save", "", r.exc)
       /\ UNCHANGED <<cmt, cfile, plan, added, pc, snap>>

Next == AddExplicit \/ AddGenerated

Spec == Init /\ [][Next]_vars

----------------------------------------------------------------------------
(* Checks under Spec *)

\* positions of the placeholders (DummyComment records) with uid u
Placeholders(cs, u) == {i \in 1..Len(cs) : cs[i].dummy /\ cs[i].uid = u}

\* positions of the non-placeholder records with uid u
Reals(cs, u) == {i \in 1..Len(cs) : ~cs[i].dummy /\ cs[i].uid = u}

\* positions of the non-placeholder records that name u as their parent
Replies(cs, u) == {i \in 1..Len(cs) : ~cs[i].dummy /\ cs[i].parent = u}

\* how often x occurs in the list s
Count(s, x) == Cardinality({i \in 1..Len(s) : s[i] = x})

C9_GeneratedUidFresh ==
    [][(last'.op = "addgen" /\ last'.exc = "")
          => Reals(comments, last'.uid) = {}]_vars

----------------------------------------------------------------------------
(* SpecTree: a set of records with consistent parent references (a forest: *)
(* distinct uids, level 0 for a record without parent and the parent's     *)
(* level + 1 otherwise), fed to add() one record at a time in any order.   *)
(* Record i of the plan has uid UidSeq[i] and order i - 1.                 *)

\* the number of records of a plan
PlanSize == 4

\* the depth of node i under the parent map p (0 for none), -1 on a cycle
RECURSIVE Depth(_, _, _)
Depth(p, i, fuel) ==
    IF p[i] = 0 THEN 0
    ELSE IF fuel = 0 THEN -1
    ELSE LET d == Depth(p, p[i], fuel - 1)
         IN IF d < 0 THEN -1 ELSE d + 1

Forests == {p \in [1..PlanSize -> 0..PlanSize] : \A i \in 1..PlanSize : Depth(p, i, PlanSize) >= 0}

PlanOf(p) ==
    [i \in 1..PlanSize |->
        [uid |-> UidSeq[i], order |-> i - 1, level |-> Depth(p, i, PlanSize),
         parent |-> IF p[i] = 0 THEN "" ELSE UidSeq[p[i]]]]

Plans == {PlanOf(p) : p \in Forests}

Range(s) == {s[i] : i \in 1..Len(s)}

TreeInit ==
    /\ comments = <<>>
    /\ dummies = <<>>
    /\ next = 0
    /\ uids = {}
    /\ log = NoFile
    /\ last = Call("init", "", "")
    /\ plan \in Plans
    /\ added = <<>>
    /\ pc = "tree"
    /\ snap = <<>>
    /\ cmt = NoComment
    /\ cfile = NoText

\* thread.add(level, order, uid, parent) for a record of the plan not yet added
AddPlanned ==
    \E i \in (1..PlanSize) \ Range(added) :
        LET r == add(Cur, plan[i].level, plan[i].order, plan[i].uid, plan[i].parent, <<>>)
        IN /\ SetThread(r.t)
           /\ last' = Call("add", r.val, r.exc)
           /\ added' = Append(added, i)
           /\ UNCHANGED <<cmt, cfile, log, plan, pc, snap>>

TreeNext == AddPlanned

SpecTree == TreeInit /\ [][TreeNext]_vars

\* record j of cs descends from the record with uid u by parent links
RECURSIVE DescOfUid(_, _, _, _)
DescOfUid(cs, j, u, fuel) ==
    \/ cs[j].parent = u
    \/ /\ fuel > 0
       /\ cs[j].parent # ""
       /\ \E k \in 1..Len(cs) : cs[k].uid = cs[j].parent /\ DescOfUid(cs, k, u, fuel - 1)

\* the positions after i up to the next record at the level of cs[i] or above it
RunAfter(cs, i) == {j \in (i + 1)..Len(cs) : \A k \in (i + 1)..j : cs[k].level > cs[i].level}

\* the positions of the descendants of cs[i]
DescPositions(cs, i) == {j \in 1..Len(cs) : DescOfUid(cs, j, cs[i].uid, Len(cs))}

Linearized(cs) == \A i \in 1..Len(cs) : RunAfter(cs, i) = DescPositions(cs, i)

\* C1: after any sequence of add() calls with consistent parent references the
\* list is a depth-first contiguous linearization: the records that follow a
\* record up to the next one at its level or above are exactly its descendants.
C1_Linearized == Linearized(comments)

\* the ascending sequence of the numbers in S
RECURSIVE Ascending(_)
Ascending(S) ==
    IF S = {} THEN <<>>
    ELSE LET m == CHOOSE x \in S : \A y \in S : x <= y
         IN <<m>> \o Ascending(S \ {m})

\* the thread after add() of the plan's records is, in the order of idx
RECURSIVE Replay(_, _, _, _)
Replay(t, pl, idx, k) ==
    IF k > Len(idx) THEN t
    ELSE Replay(add(t, pl[idx[k]].level, pl[idx[k]].order, pl[idx[k]].uid,
                    pl[idx[k]].parent, <<>>).t, pl, idx, k + 1)

UidLevels(cs) == [i \in 1..Len(cs) |-> <<cs[i].uid, cs[i].level>>]

\* C2: whatever the order in which a set of records was fed to add(), the list
\* is the one that feeding the same records in ascending order of uid gives
\* (same uids at the same positions with the same levels).
C2_OrderIndependent ==
    UidLevels(comments) =
        UidLevels(Replay(ThreadInit, plan, Ascending(Range(added)), 1).comments)

\* the records of cs under the record with uid u, in list order
Under(cs, u) == SelectSeq([i \in 1..Len(cs) |-> [pos |-> i, rec |-> cs[i]]],
                          LAMBDA e : DescOfUid(cs, e.pos, u, Len(cs)))

\* C3: when add() brings the real record of a uid held by a placeholder, the
\* placeholder and the reservation are gone afterwards, the real record is in
\* the list, and the records that were under the placeholder follow the real
\* record immediately, in their original relative order.
C3_PlaceholderResolved ==
    [][(last'.op = "add" /\ InList(dummies, last'.uid))
          => LET u == last'.uid
                 acc == Under(comments, u)
             IN /\ Placeholders(comments', u) = {}
                /\ ~InList(dummies', u)
                /\ \E p \in Reals(comments', u) :
                      /\ p + Len(acc) <= Len(comments')
                      /\ \A k \in 1..Len(acc) : comments'[p + k] = acc[k].rec]_vars

\* the plan of C6: P at level 0 with order 0 and three replies with orders 1, 2, 3
C6Plan ==
    [i \in 1..4 |-> [uid |-> UidSeq[i], order |-> i - 1,
                     level |-> IF i = 1 THEN 0 ELSE 1,
                     parent |-> IF i = 1 THEN "" ELSE UidSeq[1]]]

\* C6: P, then its replies in the arrival order 2, 3, 1, ends with
\* [P, reply(order=1), reply(order=2), reply(order=3)].
C6_RepliesAscending ==
    (plan = C6Plan /\ added = <<1, 3, 4, 2>>)
        => UidsOf(comments) = <<UidSeq[1], UidSeq[2], UidSeq[3], UidSeq[4]>>

----------------------------------------------------------------------------
(* SpecLog: a thread file holding some records of a plan, one line each,  *)
(* in any order of the lines, is loaded into a new Thread, saved, and the *)
(* saved file is loaded into another new Thread.                          *)

\* a line of a thread file as found on disk: the parent field is absent for a
\* record without parent
FileLine(rec) ==
    IF rec.parent = "" THEN <<Str(rec.level), Str(rec.order), rec.uid>>
    ELSE <<Str(rec.level), Str(rec.order), rec.uid, rec.parent>>

\* the orders in which lines of the plan's records can stand in a file
LineOrders ==
    {s \in UNION {[1..n -> 1..PlanSize] : n \in 1..PlanSize} :
        \A i, j \in 1..Len(s) : i # j => s[i] # s[j]}

LogInit ==
    /\ comments = <<>>
    /\ dummies = <<>>
    /\ next = 0
    /\ uids = {}
    /\ plan \in Plans
    /\ added \in LineOrders
    /\ log = File([i \in 1..Len(added) |-> FileLine(plan[added[i]])])
    /\ last = Call("init", "", "")
    /\ pc = "start"
    /\ snap = <<>>
    /\ cmt = NoComment
    /\ cfile = NoText

\* thread = Thread(slug); thread.load(): on the file given at first, and on the
\* saved file afterwards
LoadNew ==
    /\ pc \in {"start", "saved"}
    /\ LET r == load(ThreadInit, log)
       IN /\ SetThread(r.t)
          /\ last' = Call("load", "", r.exc)
          /\ snap' = IF pc = "start" THEN r.t.comments ELSE snap
    /\ pc' = IF pc = "start" THEN "loaded" ELSE "reloaded"
    /\ UNCHANGED <<cmt, cfile, log, plan, added>>

\* thread.save()
SaveLoaded ==
    /\ pc = "loaded"
    /\ LET r == save(Cur, log)
       IN /\ SetThread(r.t)
          /\ log' = r.val
          /\ last' = Call("save", "", r.exc)
    /\ pc' = "saved"
    /\ UNCHANGED <<cmt, cfile, plan, added, snap>>

LogNext == LoadNew \/ SaveLoaded

SpecLog == LogInit /\ [][LogNext]_vars

\* C5: loading a thread log, saving it and loading the saved file into a fresh
\* thread yields the records sequence of the first load.
C5_RoundTrip ==
    pc = "reloaded" => UidLevels(comments) = UidLevels(snap)

\* C7: a thread log made only of top-level records loads in ascending order of
\* the order field, whatever the order of its lines (so the log (0, 1, B),
\* (0, 0, A) loads as [A, B]).
C7_TopLevelAscending ==
    (pc = "loaded" /\ \A i \in 1..Len(added) : plan[added[i]].parent = "")
        => \A i, j \in 1..Len(comments) :
              i < j => comments[i].order <= comments[j].order

----------------------------------------------------------------------------
(* SpecAuto: one Thread object driven by add() with the order and the uid  *)
(* left to the thread and with the parent, if any, already in the thread,  *)
(* and by save().                                                          *)

\* the largest number of records before an add() is made in SpecAuto
MaxAuto == 5

\* the first uid of UidSeq that S does not hold
Fresh(S) == UidSeq[CHOOSE k \in 1..Len(UidSeq) :
                      UidSeq[k] \notin S /\ \A j \in 1..(k - 1) : UidSeq[j] \in S]

\* thread.add(level=level, parent=parent): generate() returns c, then a uid
\* the UIDMaker does not know
AddAuto ==
    /\ Len(comments) < MaxAuto
    /\ \E level \in 0..MaxLevel, parent \in {""} \cup Range(UidsOf(comments)),
          c \in uids \cup {Fresh(uids)} :
          LET r == add(Cur, level, OrderNone, UidNone, parent,
                       CandStream(1, c, Fresh(uids)))
          IN /\ SetThread(r.t)
             /\ last' = Call("addgen", r.val, r.exc)
    /\ UNCHANGED <<cmt, cfile, log, plan, added, pc, snap>>

AutoNext == AddAuto \/ Save

SpecAuto == Init /\ [][AutoNext]_vars

\* the records read off the lines of the thread file
LogRecords == [i \in 1..Len(log.lines) |-> entry(log.lines[i])]

\* records with the same parent stand in descending order, and every record is
\* directly followed by its descendants
NewestFirst(cs) ==
    /\ \A i, j \in 1..Len(cs) :
          (i < j /\ cs[i].parent = cs[j].parent) => cs[i].order > cs[j].order
    /\ \A i \in 1..Len(cs) :
          DescPositions(cs, i) = (i + 1)..(i + Cardinality(DescPositions(cs, i)))

\* C8: with auto-assigned orders and parents added before their replies, the
\* records are newest-first (top-level records descending, the replies of each
\* parent descending, each record directly followed by its subtree), and so
\* are the lines save() writes, which list the records in the same sequence.
C8_NewestFirst ==
    /\ NewestFirst(comments)
    /\ log.exists => NewestFirst(LogRecords)
    /\ (last.op = "save" /\ last.exc = "") => UidsOf(LogRecords) = UidsOf(comments)

\* C8 witness: a saved thread with two top-level records and two replies of
\* one parent
C8_Witness ==
    /\ last.op = "save"
    /\ last.exc = ""
    /\ Len(log.lines) = Len(comments)
    /\ Cardinality(Replies(comments, "")) >= 2
    /\ \E u \in Range(UidsOf(comments)) : Cardinality(Replies(comments, u)) >= 2

----------------------------------------------------------------------------
(* SpecUID: one UIDMaker object: load() once on a new object, then calls.  *)
(* snap is the known set after load(), added the uids the calls returned.  *)

UIDInit ==
    /\ comments = <<>>
    /\ dummies = <<>>
    /\ next = 0
    /\ uids = {}
    /\ log = NoFile
    /\ last = Call("init", "", "")
    /\ plan = <<>>
    /\ added = <<>>
    /\ pc = "new"
    /\ snap = {}
    /\ cmt = NoComment
    /\ cfile = NoText

\* uids.load(): the comment directory holds the files of the uids in S
LoadUIDs ==
    /\ pc = "new"
    /\ \E S \in SUBSET Uids :
          /\ uids' = uids \cup S
          /\ snap' = uids \cup S
    /\ last' = Call("uidload", "", "")
    /\ pc' = "loaded"
    /\ UNCHANGED <<cmt, cfile, comments, dummies, next, log, plan, added>>

\* the outcome of a call of the UIDMaker: what was returned or raised, the
\* argument, what generate() returned and how often it was called
UIDCall(g, retry, cands) ==
    [op |-> "uid", uid |-> g.val, exc |-> g.exc, retry |-> retry,
     cands |-> cands, tries |-> g.tries]

\* uids(retry)
MakeUID ==
    /\ \E retry \in BOOLEAN, cands \in CandStreams :
          LET g == UIDMakerCall(uids, retry, cands)
          IN /\ uids' = g.uids
             /\ last' = UIDCall(g, retry, cands)
             /\ added' = IF g.exc = "" THEN Append(added, g.val) ELSE added
    /\ pc' = "called"
    /\ UNCHANGED <<cmt, cfile, comments, dummies, next, log, plan, snap>>

UIDNext == LoadUIDs \/ MakeUID

SpecUID == UIDInit /\ [][UIDNext]_vars

\* C10: the uids the successful calls returned are distinct and none was known
\* before, and the known set is what it was plus exactly those uids: n
\* successful calls have made it grow by n.
C10_FreshAndCounted ==
    /\ \A i, j \in 1..Len(added) : i # j => added[i] # added[j]
    /\ \A i \in 1..Len(added) : added[i] \notin snap
    /\ uids = snap \cup Range(added)
    /\ Cardinality(uids) = Cardinality(snap) + Len(added)

\* C10 witness: two calls have succeeded on a UIDMaker that had loaded a uid
C10_Witness ==
    /\ snap # {}
    /\ Len(added) >= 2
    /\ last.op = "uid"
    /\ last.exc = ""

\* every candidate generate() returned to the last call was known before it
AllKnown(c, known) == \A t \in 1..Len(c) : c[t] \in known

\* C11 (as stated): with retry=True and every candidate known, the call fails
\* with UIDTooManyRetries after at most max_retries generation attempts and
\* leaves the known set unchanged.
C11_AtMostMaxAttempts ==
    [][(last'.op = "uid" /\ last'.retry /\ AllKnown(last'.cands, uids))
          => /\ last'.exc = "UIDTooManyRetries"
             /\ last'.tries <= max_retries
             /\ uids' = uids]_vars

\* C11 (amended): with retry=True and every candidate known, the call fails
\* with UIDTooManyRetries after exactly max_retries + 1 generation attempts
\* (the first one and max_retries re-generations) and leaves the known set
\* unchanged.
C11_RetriesThenFails ==
    [][(last'.op = "uid" /\ last'.retry /\ AllKnown(last'.cands, uids))
          => /\ last'.exc = "UIDTooManyRetries"
             /\ last'.tries = max_retries + 1
             /\ uids' = uids]_vars

\* C11 witness: a call with retry=True has failed on candidates all known
C11_Witness ==
    /\ last.op = "uid"
    /\ last.retry
    /\ last.exc = "UIDTooManyRetries"
    /\ AllKnown(last.cands, uids)

\* C12: with retry=False the call generates exactly one candidate; a known
\* candidate makes it fail with UIDExists and leaves the known set unchanged,
\* any other candidate is added to the known set and returned.
C12_SingleCandidate ==
    [][(last'.op = "uid" /\ ~last'.retry)
          => /\ last'.tries = 1
             /\ IF last'.cands[1] \in uids
                THEN last'.exc = "UIDExists" /\ uids' = uids
                ELSE /\ last'.exc = ""
                     /\ last'.uid = last'.cands[1]
                     /\ uids' = uids \cup {last'.cands[1]}]_vars

\* C12 witness: a call with retry=False has failed on a known candidate
C12_Witness ==
    /\ last.op = "uid"
    /\ ~last.retry
    /\ last.exc = "UIDExists"
    /\ last.cands[1] \in uids

----------------------------------------------------------------------------
(* SpecBadLog: as SpecLog, on a thread file in which the level or the order *)
(* field of one line is not a number.                                       *)

\* a field that int() rejects
BadField == "x"

\* the lines with field f of line b replaced by BadField
Spoil(lines, b, f) == [lines EXCEPT ![b] = [@ EXCEPT ![f] = BadField]]

BadLogInit ==
    /\ comments = <<>>
    /\ dummies = <<>>
    /\ next = 0
    /\ uids = {}
    /\ plan \in Plans
    /\ added \in LineOrders
    /\ \E b \in 1..Len(added), f \in 1..2 :
          log = File(Spoil([i \in 1..Len(added) |-> FileLine(plan[added[i]])], b, f))
    /\ last = Call("init", "", "")
    /\ pc = "start"
    /\ snap = <<>>
    /\ cmt = NoComment
    /\ cfile = NoText

SpecBadLog == BadLogInit /\ [][LogNext]_vars

\* C13: when load() has failed on a line whose level or order is not a number,
\* the thread holds no records.
C13_AllOrNothing ==
    (pc = "loaded" /\ last.op = "load" /\ last.exc = "ValueError")
        => comments = <<>>

----------------------------------------------------------------------------
(* Checks of save() under SpecAuto *)

\* C14: save() on a thread of n records, n >= 0, completes without error,
\* writes exactly the n lines of the records in list order and leaves
\* Thread.next equal to n.
C14_SaveAnyThread ==
    last.op = "save"
        => /\ last.exc = ""
           /\ log = File([i \in 1..Len(comments) |-> Line(comments[i])])
           /\ next = Len(comments)

----------------------------------------------------------------------------
(* Comment: load and save of the comment file.  A text is the sequence of  *)
(* its characters; a token longer than one character stands for a run of   *)
(* characters that holds no colon, blank or line end ("date" for the key   *)
(* date, a date-time's digits, a UTC offset, the placeholder body).        *)
(* A metadata value is a record: a string [kind "str", s] or a date-time   *)
(* [kind "date", stamp, tz]; the metadata dict is the sequence of its      *)
(* [key, val] items in insertion order.                                    *)

\* the characters str.strip() removes
White == {" ", "\n", "\r"}

\* str.strip()
RECURSIVE Strip(_)
Strip(s) ==
    IF s = <<>> THEN s
    ELSE IF s[1] \in White THEN Strip(Tail(s))
    ELSE IF s[Len(s)] \in White THEN Strip(SubSeq(s, 1, Len(s) - 1))
    ELSE s

\* reading in text mode with universal newlines: "\r\n" and "\r" become "\n"
RECURSIVE Universal(_)
Universal(s) ==
    IF s = <<>> THEN s
    ELSE IF s[1] = "\r"
         THEN IF Len(s) >= 2 /\ s[2] = "\n"
              THEN <<"\n">> \o Universal(SubSeq(s, 3, Len(s)))
              ELSE <<"\n">> \o Universal(Tail(s))
         ELSE <<s[1]>> \o Universal(Tail(s))

\* the position of the first x in s, 0 when s does not hold x
FirstPos(s, x) ==
    IF \E i \in 1..Len(s) : s[i] = x
    THEN CHOOSE i \in 1..Len(s) : s[i] = x /\ \A j \in 1..(i - 1) : s[j] # x
    ELSE 0

\* a string value and a date-time value of the metadata
StrVal(s) == [kind |-> "str", s |-> s, stamp |-> "", tz |-> ""]

DateVal(stamp, tz) == [kind |-> "date", s |-> <<>>, stamp |-> stamp, tz |-> tz]

\* the digits of a date-time and the UTC offsets that follow them
Stamps == {"2020-01-01 00:00:00"}

Offsets == {"+00:00", "+01:00"}

\* tzinfo None
Naive == "naive"

\* "%s" % val
StrOf(val) ==
    IF val.kind = "str" THEN val.s
    ELSE IF val.tz = Naive THEN <<val.stamp>> ELSE <<val.stamp, val.tz>>

\* arrow.get(val).datetime: a text without offset is taken as UTC
ArrowGet(s) ==
    IF Len(s) = 1 /\ s[1] \in Stamps
    THEN [exc |-> "", val |-> DateVal(s[1], "+00:00")]
    ELSE IF Len(s) = 2 /\ s[1] \in Stamps /\ s[2] \in Offsets
         THEN [exc |-> "", val |-> DateVal(s[1], s[2])]
         ELSE [exc |-> "ParserError", val |-> StrVal(s)]

\* Comment._parse_metadata
parse_metadata(line) ==
    LET c == FirstPos(line, ":")
        key == Strip(SubSeq(line, 1, c - 1))
        val == Strip(SubSeq(line, c + 1, Len(line)))
    IN IF c = 0 THEN [exc |-> "AssertionError", key |-> <<>>, val |-> StrVal(<<>>)]
       ELSE IF key = <<"date">>
            THEN LET d == ArrowGet(val) IN [exc |-> d.exc, key |-> key, val |-> d.val]
            ELSE [exc |-> "", key |-> key, val |-> StrVal(val)]

\* metadata[key] = val on a dict kept as the sequence of its items
DictSet(m, key, val) ==
    IF \E i \in 1..Len(m) : m[i].key = key
    THEN [i \in 1..Len(m) |-> IF m[i].key = key THEN [key |-> key, val |-> val] ELSE m[i]]
    ELSE Append(m, [key |-> key, val |-> val])

\* the for loop of Comment.load over the text not yet read, and the read()
\* after it
RECURSIVE LoadText(_, _)
LoadText(text, metadata) ==
    IF text = <<>> THEN [exc |-> "", metadata |-> metadata, content |-> <<>>]
    ELSE LET e == FirstPos(text, "\n")
             line == IF e = 0 THEN text ELSE SubSeq(text, 1, e)
             rest == IF e = 0 THEN <<>> ELSE SubSeq(text, e + 1, Len(text))
         IN IF Strip(line) = <<>>
            THEN [exc |-> "", metadata |-> metadata, content |-> rest]
            ELSE LET kv == parse_metadata(line)
                 IN IF kv.exc # ""
                    THEN [exc |-> kv.exc, metadata |-> metadata, content |-> <<>>]
                    ELSE LoadText(rest, DictSet(metadata, kv.key, kv.val))

\* the body load() substitutes when the file cannot be read
Deleted == <<"[[deleted]]">>

\* mutant of CommentLoad: the loaded flag is not looked at
CommentLoadAgain(c, file, ignore_errors) ==
    IF ~file.exists
    THEN IF ignore_errors
         THEN Ret([c EXCEPT !.content = Deleted, !.loaded = TRUE], "", "")
         ELSE Ret(c, "FileNotFoundError", "")
    ELSE LET r == LoadText(Universal(file.text), c.metadata)
         IN IF r.exc # "" THEN Ret([c EXCEPT !.metadata = r.metadata], r.exc, "")
            ELSE Ret([c EXCEPT !.metadata = r.metadata, !.content = r.content,
                               !.loaded = TRUE], "", "")

\* Comment.load: only IOError is caught; the metadata read before a failing
\* line stays in the dict
CommentLoad(c, file, ignore_errors) ==
    IF c.loaded THEN Ret(c, "", "")
    ELSE IF ~file.exists
         THEN IF ignore_errors
              THEN Ret([c EXCEPT !.content = Deleted, !.loaded = TRUE], "", "")
              ELSE Ret(c, "FileNotFoundError", "")
         ELSE LET r == LoadText(Universal(file.text), c.metadata)
              IN IF r.exc # "" THEN Ret([c EXCEPT !.metadata = r.metadata], r.exc, "")
                 ELSE Ret([c EXCEPT !.metadata = r.metadata, !.content = r.content,
                                    !.loaded = TRUE], "", "")

\* the metadata lines Comment.save writes
RECURSIVE MetaText(_)
MetaText(m) ==
    IF m = <<>> THEN <<>>
    ELSE m[1].key \o <<":", " ">> \o StrOf(m[1].val) \o <<"\n">> \o MetaText(Tail(m))

\* Comment.save(content) with content given: val is the file written
CommentSave(c, content) ==
    LET c1 == [c EXCEPT !.loaded = TRUE, !.content = content]
    IN Ret(c1, "", Text(MetaText(c1.metadata) \o <<"\n">> \o c1.content))

\* the texts of at most n characters drawn from chars
Strings(chars, n) == UNION {[1..k -> chars] : k \in 0..n}

\* the outcome of a load() call: the argument and the flag before the call
LoadCall(r, ignore_errors, was) ==
    [op |-> "cload", uid |-> "", exc |-> r.exc, ignore |-> ignore_errors, was |-> was]

----------------------------------------------------------------------------
(* SpecComment: one Comment object; its file is absent or holds any short  *)
(* text and is rewritten at any time; load() is called with either value   *)
(* of ignore_errors.                                                       *)

\* the longest comment file of SpecComment
MaxText == 3

CommentFiles == {NoText} \cup {Text(t) : t \in Strings({"k", ":", "\n"}, MaxText)}

CommentInit ==
    /\ comments = <<>>
    /\ dummies = <<>>
    /\ next = 0
    /\ uids = {}
    /\ log = NoFile
    /\ last = Call("init", "", "")
    /\ plan = <<>>
    /\ added = <<>>
    /\ pc = "comment"
    /\ snap = <<>>
    /\ cmt = NoComment
    /\ cfile \in CommentFiles

\* comment.load(ignore_errors=ignore_errors)
LoadComment ==
    /\ \E ignore_errors \in BOOLEAN :
          LET r == CommentLoad(cmt, cfile, ignore_errors)
          IN /\ cmt' = r.t
             /\ last' = LoadCall(r, ignore_errors, cmt.loaded)
    /\ UNCHANGED <<comments, dummies, next, uids, log, plan, added, pc, snap, cfile>>

\* the comment file is written, or removed, by someone else
ChangeFile ==
    /\ \E f \in CommentFiles \ {cfile} : cfile' = f
    /\ last' = Call("write", "", "")
    /\ UNCHANGED <<comments, dummies, next, uids, log, plan, added, pc, snap, cmt>>

CommentNext == LoadComment \/ ChangeFile

SpecComment == CommentInit /\ [][CommentNext]_vars

\* C15: once the Comment is loaded, a load() call leaves its metadata, body
\* and loaded flag as they were and does not raise, whatever the file holds.
C15_LoadIdempotent ==
    [][(last'.op = "cload" /\ cmt.loaded) => (cmt' = cmt /\ last'.exc = "")]_vars

\* C15 witness: load() was called again on a Comment that had swallowed a
\* missing file, while the file exists: the placeholder body is still there
C15_Witness ==
    /\ last.op = "cload"
    /\ last.was
    /\ cmt.loaded
    /\ cmt.content = Deleted
    /\ cfile.exists

\* the lines of a text, each without its line end
RECURSIVE Lines(_)
Lines(text) ==
    IF text = <<>> THEN <<>>
    ELSE LET e == FirstPos(text, "\n")
         IN IF e = 0 THEN <<text>>
            ELSE <<SubSeq(text, 1, e - 1)>> \o Lines(SubSeq(text, e + 1, Len(text)))

\* the leading block of the text holds a non-blank line without a colon
Malformed(text) ==
    LET ls == Lines(Universal(text))
    IN \E i \in 1..Len(ls) :
          /\ \A j \in 1..i : Strip(ls[j]) # <<>>
          /\ FirstPos(ls[i], ":") = 0

\* C16: on a file whose leading block holds a non-blank line without a colon,
\* load() raises with ignore_errors=False, and with ignore_errors=True it does
\* not raise, substitutes the placeholder body and marks the Comment loaded.
C16_TolerantLoad ==
    [][(last'.op = "cload" /\ ~cmt.loaded /\ cfile.exists /\ Malformed(cfile.text))
          => IF last'.ignore
             THEN last'.exc = "" /\ cmt'.loaded /\ cmt'.content = Deleted
             ELSE last'.exc # ""]_vars

----------------------------------------------------------------------------
(* SpecRoundTrip: a new Comment is given metadata (one string item, one    *)
(* date item, in either order), saved with a body, and the file is loaded  *)
(* by a new Comment of the same uid.  snap keeps the saved Comment.        *)

\* the longest key, string value and body of SpecRoundTrip
MaxStr == 2

MetaKeys == Strings({"k", " ", ":"}, MaxStr)

StrVals == {StrVal(v) : v \in Strings({"a", " ", "\n", "\r"}, MaxStr)}

DateVals == {DateVal(d, tz) : d \in Stamps, tz \in Offsets \cup {Naive}}

Bodies == Strings({"b", "\n", "\r"}, MaxStr)

RoundTripInit ==
    /\ comments = <<>>
    /\ dummies = <<>>
    /\ next = 0
    /\ uids = {}
    /\ log = NoFile
    /\ last = Call("init", "", "")
    /\ plan = <<>>
    /\ added = <<>>
    /\ pc = "new"
    /\ snap = NoComment
    /\ cmt = NoComment
    /\ cfile = NoText

\* comment.metadata[key] = val, once for a string and once for the date
SetMeta ==
    /\ pc = "new"
    /\ \E key \in MetaKeys \cup {<<"date">>} :
          \E val \in (IF key = <<"date">> THEN DateVals ELSE StrVals) :
             /\ \A i \in 1..Len(cmt.metadata) : cmt.metadata[i].val.kind # val.kind
             /\ cmt' = [cmt EXCEPT !.metadata = DictSet(@, key, val)]
    /\ last' = Call("setmeta", "", "")
    /\ UNCHANGED <<comments, dummies, next, uids, log, plan, added, pc, snap, cfile>>

\* comment.save(content)
SaveComment ==
    /\ pc = "new"
    /\ \E content \in Bodies :
          LET r == CommentSave(cmt, content)
          IN /\ cmt' = r.t
             /\ cfile' = r.val
             /\ last' = Call("csave", "", r.exc)
    /\ pc' = "saved"
    /\ UNCHANGED <<comments, dummies, next, uids, log, plan, added, snap>>

\* fresh = Comment(thread, uid=comment.uid); fresh.load()
LoadFresh ==
    /\ pc = "saved"
    /\ LET r == CommentLoad(NoComment, cfile, FALSE)
       IN /\ cmt' = r.t
          /\ last' = LoadCall(r, FALSE, FALSE)
    /\ snap' = cmt
    /\ pc' = "fresh"
    /\ UNCHANGED <<comments, dummies, next, uids, log, plan, added, cfile>>

RoundTripNext == SetMeta \/ SaveComment \/ LoadFresh

SpecRoundTrip == RoundTripInit /\ [][RoundTripNext]_vars

\* the mapping a metadata dict stands for
MetaMap(m) == {<<m[i].key, m[i].val>> : i \in 1..Len(m)}

\* the fresh Comment has loaded the metadata and the body of the saved one
SameComment ==
    /\ last.exc = ""
    /\ MetaMap(cmt.metadata) = MetaMap(snap.metadata)
    /\ cmt.content = snap.content

\* C17: a fresh Comment that loads the file of a saved Comment ends with the
\* metadata mapping and the body of the saved Comment.
C17_RoundTrip == pc = "fresh" => SameComment

\* a text on one line, without blanks at its ends
OneLine(t) == Strip(t) = t /\ \A i \in 1..Len(t) : t[i] \notin {"\n", "\r"}

\* keys and string values are on one line without blanks at their ends, keys
\* hold no colon, and the date carries a UTC offset
PlainMeta(m) ==
    \A i \in 1..Len(m) :
        /\ OneLine(m[i].key)
        /\ FirstPos(m[i].key, ":") = 0
        /\ IF m[i].val.kind = "str" THEN OneLine(m[i].val.s) ELSE m[i].val.tz # Naive

\* where the round trip does hold: the keys and the string values of the
\* metadata are single-line texts without leading or trailing whitespace, the
\* keys hold no colon, the date is timezone-aware and the body holds no
\* carriage return
PlainRoundTrip ==
    (pc = "fresh" /\ PlainMeta(snap.metadata) /\ FirstPos(snap.content, "\r") = 0)
        => SameComment

----------------------------------------------------------------------------
(* Checks of insert_into_level, insert and add under SpecTree and Spec *)

\* no record of cs with the parent of rec has an order <= the order of rec
NoLowerSibling(cs, rec) ==
    \A i \in 1..Len(cs) : cs[i].parent = rec.parent => cs[i].order > rec.order

\* the record of the plan that the last add() was given
LastPlanned == plan'[added'[Len(added')]]

\* C18: a record that replaces no placeholder and has no sibling with an order
\* <= its own is placed at the very end of the list when it has no parent, and
\* immediately after its parent when it has one.
C18_EndOrAfterParent ==
    [][(last'.op = "add" /\ last'.exc = ""
          /\ ~InList(dummies, LastPlanned.uid)
          /\ NoLowerSibling(comments, LastPlanned))
          => IF LastPlanned.parent = ""
             THEN UidsOf(comments') = Append(UidsOf(comments), LastPlanned.uid)
             ELSE \E p \in 1..(Len(comments') - 1) :
                     /\ comments'[p].uid = LastPlanned.parent
                     /\ comments'[p + 1].uid = LastPlanned.uid]_vars

\* no two records of cs have the same uid
DistinctUids(cs) == \A i, j \in 1..Len(cs) : i # j => cs[i].uid # cs[j].uid

\* C19: every record whose parent uid is the uid of a non-placeholder record of
\* the thread has the level of that record + 1 (looked at in the threads whose
\* records have distinct uids).
C19_LevelFromParent ==
    DistinctUids(comments) =>
        \A i, j \in 1..Len(comments) :
            (~comments[i].dummy /\ ~comments[j].dummy
               /\ comments[i].parent = comments[j].uid)
                => comments[i].level = comments[j].level + 1

\* C20: Thread.next is strictly greater than the order of every
\* non-placeholder record of the thread, so that an add() without an order
\* never assigns an order a record already carries.
C20_NextAboveOrders ==
    \A i \in 1..Len(comments) : ~comments[i].dummy => comments[i].order < next

----------------------------------------------------------------------------
(* SpecThread: one Thread object driven by add() with explicit arguments,  *)
(* by save() and by load() of the file save() wrote.                       *)

\* add() is not called in SpecThread once the list holds MaxHeld records, its
\* uids are the first MaxHeld of UidSeq, and neither add() nor load() is called
\* once MaxHeld uids are reserved
MaxHeld == 2

HeldUids == {UidSeq[i] : i \in 1..MaxHeld}

\* thread.add(level, order, uid, parent) with an explicit uid
AddHeld ==
    /\ Len(comments) < MaxHeld
    /\ Len(dummies) < MaxHeld
    /\ next < MaxNext
    /\ \E level \in 0..MaxLevel, order \in {OrderNone, 0, MaxOrder},
          uid \in HeldUids :
          \E parent \in {""} \cup (HeldUids \ {uid}) :
             LET r == add(Cur, level, order, uid, parent, <<>>)
             IN /\ SetThread(r.t)
                /\ last' = Call("add", r.val, r.exc)
    /\ UNCHANGED <<cmt, cfile, log, plan, added, pc, snap>>

\* thread.load() on the thread object in use
LoadThread ==
    /\ next < MaxNext
    /\ Len(dummies) < MaxHeld
    /\ LET r == load(Cur, log)
       IN /\ SetThread(r.t)
          /\ last' = Call("load", "", r.exc)
    /\ UNCHANGED <<cmt, cfile, log, plan, added, pc, snap>>

ThreadNext == AddHeld \/ Save \/ LoadThread

SpecThread == Init /\ [][ThreadNext]_vars

\* C21: Thread.next after an add(), load() or save() call is greater than or
\* equal to its value before the call.
C21_NextMonotone == [][next' >= next]_vars

\* what holds of Thread.next in its place: add() and load() never lower it, and
\* a save() that completes sets it to the number of records in the list
NextAfterCalls ==
    [][/\ last'.op \in {"add", "load"} => next' >= next
       /\ (last'.op = "save" /\ last'.exc = "") => next' = Len(comments)]_vars

\* C23: the records after a load() and the outcome of the call are those of a
\* load() of the same thread file on a new Thread object.
C23_LoadReplaces ==
    last.op = "load" =>
        LET f == load(ThreadInit, log)
        IN /\ last.exc = f.exc
           /\ comments = f.t.comments

\* the uids of the placeholders in the list cs
PlaceholderUids(cs) == {cs[i].uid : i \in {k \in 1..Len(cs) : cs[k].dummy}}

\* C24: Thread.dummies holds no uid twice, and a uid is in it exactly when a
\* placeholder with that uid is in the list of records.
C24_DummiesExact ==
    /\ \A i, j \in 1..Len(dummies) : dummies[i] = dummies[j] => i = j
    /\ {dummies[i] : i \in 1..Len(dummies)} = PlaceholderUids(comments)

----------------------------------------------------------------------------
(* Check of replace_dummy under SpecTree.                                  *)

\* the last position of the run of records deeper than level lv that follows
\* position p of cs
RECURSIVE RunEnd(_, _, _)
RunEnd(cs, p, lv) ==
    IF p < Len(cs) /\ cs[p + 1].level > lv THEN RunEnd(cs, p + 1, lv) ELSE p

\* cs without its positions a..b
Without(cs, a, b) == SubSeq(cs, 1, a - 1) \o SubSeq(cs, b + 1, Len(cs))

\* C22: when add() brings the real record of a uid held by a placeholder, the
\* records that followed the placeholder up to the next record at its level or
\* a shallower one follow the real record afterwards, in the same order, and
\* the other records are, in their former order, the rest of the list.
C22_RunMoves ==
    [][(last'.op = "add" /\ Placeholders(comments, last'.uid) # {})
          => LET u == last'.uid
                 p == CHOOSE i \in Placeholders(comments, u) : TRUE
                 q == RunEnd(comments, p, comments[p].level)
                 run == SubSeq(comments, p + 1, q)
             IN \E r \in Reals(comments', u) :
                   /\ r + Len(run) <= Len(comments')
                   /\ SubSeq(comments', r + 1, r + Len(run)) = run
                   /\ Without(comments', r, r + Len(run)) = Without(comments, p, q)]_vars

----------------------------------------------------------------------------
(* SpecCommentSave: the Comment object and files of SpecComment, with       *)
(* save() called without content at any time.                              *)

\* Comment.save() with content None: val is the file written
CommentSaveNone(c) ==
    Ret(c, "", Text(MetaText(c.metadata) \o <<"\n">> \o c.content))

\* comment.save()
SaveNoContent ==
    LET r == CommentSaveNone(cmt)
    IN /\ cmt' = r.t
       /\ cfile' = r.val
       /\ last' = Call("csave", "", r.exc)
       /\ UNCHANGED <<comments, dummies, next, uids, log, plan, added, pc, snap>>

CommentSaveNext == LoadComment \/ ChangeFile \/ SaveNoContent

SpecCommentSave == CommentInit /\ [][CommentSaveNext]_vars

\* the body a text read line by line holds: what follows its first blank line
RECURSIVE BodyFrom(_)
BodyFrom(text) ==
    IF text = <<>> THEN <<>>
    ELSE LET e == FirstPos(text, "\n")
             line == IF e = 0 THEN text ELSE SubSeq(text, 1, e)
             rest == IF e = 0 THEN <<>> ELSE SubSeq(text, e + 1, Len(text))
         IN IF Strip(line) = <<>> THEN rest ELSE BodyFrom(rest)

\* the body stored in a comment file
DiskBody(file) == BodyFrom(Universal(file.text))

\* C25: save() without content on a Comment that is not loaded, with the
\* comment file present, leaves the body stored in the file as it was.
C25_SaveKeepsBody ==
    [][(last'.op = "csave" /\ ~cmt.loaded /\ cfile.exists)
          => (cfile'.exists /\ DiskBody(cfile') = DiskBody(cfile))]_vars

====
